---- MODULE Spec2Model ----
(***************************************************************************)
(* A model of scripts/scrape_molduras.py: the crawl of the category        *)
(* listings (find_product_links), the extraction of one product page       *)
(* (extract_product and its helpers), the image download (download_image)  *)
(* and the aggregation loop and serialization of main.                     *)
(*                                                                         *)
(* Texts are TLA+ strings over the ASCII characters of Chars.  Python's    *)
(* None is the value None below; a float is the text json.dump writes for  *)
(* it, a bool the text print writes for it.                                *)
(***************************************************************************)
EXTENDS Integers, Sequences, FiniteSets, TLC

None == "<None>"

----------------------------------------------------------------------------
(* Characters and str methods *)

\* The characters of the model, in code point order.
Chars == " #%,-./0123456789:;?ABCDEFGHIJKLMNOPQRSTUVWXYZ_abcdefghijklmnopqrstuvwxyz~"

UpperAlpha == "ABCDEFGHIJKLMNOPQRSTUVWXYZ"
LowerAlpha == "abcdefghijklmnopqrstuvwxyz"
Digits == "0123456789"

CharAt(s, i) == SubSeq(s, i, i)

\* The positions of s that hold the one-character string c.
Positions(c, s) == {i \in 1..Len(s) : CharAt(s, i) = c}

Least(S) == CHOOSE x \in S : \A y \in S : x <= y

Greatest(S) == CHOOSE x \in S : \A y \in S : x >= y

\* The first position of c in s from position i on, 0 when absent.
IndexFrom(c, s, i) ==
    LET ps == {j \in Positions(c, s) : j >= i}
    IN IF ps = {} THEN 0 ELSE Least(ps)

IndexOf(c, s) == IndexFrom(c, s, 1)

\* The last position of c in s, 0 when absent.
LastIndexOf(c, s) == IF Positions(c, s) = {} THEN 0 ELSE Greatest(Positions(c, s))

IsIn(c, s) == \E i \in 1..Len(s) : CharAt(s, i) = c

CharSet == {CharAt(Chars, i) : i \in 1..Len(Chars)}

\* ord(c), up to an order-preserving renumbering.
OrdOf == [c \in CharSet |-> IndexOf(c, Chars)]

Ord(c) == OrdOf[c]

\* str.lower() and str.upper() on one character.
LowerOf ==
    [c \in CharSet |->
        IF IsIn(c, UpperAlpha) THEN CharAt(LowerAlpha, IndexOf(c, UpperAlpha)) ELSE c]

UpperOf ==
    [c \in CharSet |->
        IF IsIn(c, LowerAlpha) THEN CharAt(UpperAlpha, IndexOf(c, LowerAlpha)) ELSE c]

LowerChar(c) == LowerOf[c]

UpperChar(c) == UpperOf[c]

\* The two halves of a text of two characters or more.
Left(s) == SubSeq(s, 1, Len(s) \div 2)

Right(s) == SubSeq(s, Len(s) \div 2 + 1, Len(s))

RECURSIVE Lower(_)
Lower(s) ==
    IF Len(s) = 0 THEN ""
    ELSE IF Len(s) = 1 THEN LowerChar(s)
    ELSE Lower(Left(s)) \o Lower(Right(s))

RECURSIVE Upper(_)
Upper(s) ==
    IF Len(s) = 0 THEN ""
    ELSE IF Len(s) = 1 THEN UpperChar(s)
    ELSE Upper(Left(s)) \o Upper(Right(s))

\* k in t
Contains(k, t) ==
    \E i \in 1..(Len(t) - Len(k) + 1) : SubSeq(t, i, i + Len(k) - 1) = k

StartsWith(s, p) == Len(s) >= Len(p) /\ SubSeq(s, 1, Len(p)) = p

\* s.lstrip(cs), s.rstrip(cs), s.strip(cs): cs is the string of stripped characters.
LStrip(s, cs) ==
    LET stay == {i \in 1..Len(s) : ~IsIn(CharAt(s, i), cs)}
    IN IF stay = {} THEN "" ELSE SubSeq(s, Least(stay), Len(s))

RStrip(s, cs) ==
    LET stay == {i \in 1..Len(s) : ~IsIn(CharAt(s, i), cs)}
    IN IF stay = {} THEN "" ELSE SubSeq(s, 1, Greatest(stay))

Strip(s, cs) == RStrip(LStrip(s, cs), cs)

\* The whitespace characters of the model.
Whitespace == " "

\* s.split(sep)[-1]
LastSegment(s, sep) == SubSeq(s, LastIndexOf(sep, s) + 1, Len(s))

\* s.replace(a, b) for one-character a and b.
RECURSIVE Replace(_, _, _)
Replace(s, a, b) ==
    IF Len(s) = 0 THEN ""
    ELSE IF Len(s) = 1 THEN (IF s = a THEN b ELSE s)
    ELSE Replace(Left(s), a, b) \o Replace(Right(s), a, b)

\* The characters of s that are in keep, in order: re.sub(r"[^keep]+", "", s).
RECURSIVE KeepOnly(_, _)
KeepOnly(s, keep) ==
    IF Len(s) = 0 THEN ""
    ELSE IF Len(s) = 1 THEN (IF IsIn(s, keep) THEN s ELSE "")
    ELSE KeepOnly(Left(s), keep) \o KeepOnly(Right(s), keep)

\* a < b on str: at the first position where they differ, a has ended or
\* holds the smaller code point.
StrLess(a, b) ==
    \E k \in 1..Len(b) :
        /\ k <= Len(a) + 1
        /\ SubSeq(a, 1, k - 1) = SubSeq(b, 1, k - 1)
        /\ \/ k = Len(a) + 1
           \/ Ord(CharAt(a, k)) < Ord(CharAt(b, k))

\* sorted(S) for a set of str.
RECURSIVE Sorted(_)
Sorted(S) ==
    IF S = {} THEN <<>>
    ELSE LET m == CHOOSE x \in S : \A y \in S \ {x} : StrLess(x, y)
         IN <<m>> \o Sorted(S \ {m})

----------------------------------------------------------------------------
(* Program constants *)

BASE == "https://www.marcosymarcos.mx/"

OUT_DIR == "img/molduras"

----------------------------------------------------------------------------
(* urllib.parse *)

\* s.split(sep) for a one-character sep: the texts between the separators.
Split(s, sep) ==
    LET cuts == Positions(sep, s) \cup {0, Len(s) + 1}
        Cut(k) == CHOOSE p \in cuts : Cardinality({q \in cuts : q < p}) = k - 1
    IN [k \in 1..(Cardinality(cuts) - 1) |-> SubSeq(s, Cut(k) + 1, Cut(k + 1) - 1)]

\* sep.join(parts[lo..hi])
RECURSIVE JoinRange(_, _, _, _)
JoinRange(parts, sep, lo, hi) ==
    IF lo > hi THEN ""
    ELSE IF lo = hi THEN parts[lo]
    ELSE JoinRange(parts, sep, lo, (lo + hi) \div 2) \o sep
         \o JoinRange(parts, sep, (lo + hi) \div 2 + 1, hi)

Join(parts, sep) == JoinRange(parts, sep, 1, Len(parts))

scheme_chars == LowerAlpha \o UpperAlpha \o Digits \o "+-."

uses_relative == {"", "ftp", "http", "gopher", "nntp", "imap", "wais", "file", "https",
                  "shttp", "mms", "prospero", "rtsp", "rtsps", "rtspu", "sftp", "svn",
                  "svn+ssh", "ws", "wss"}

uses_netloc == {"", "ftp", "http", "gopher", "nntp", "telnet", "imap", "wais", "file",
                "mms", "https", "shttp", "snews", "prospero", "rtsp", "rtsps", "rtspu",
                "rsync", "svn", "svn+ssh", "sftp", "nfs", "git", "git+ssh", "ws", "wss"}

uses_params == {"", "ftp", "hdl", "prospero", "http", "imap", "https", "shttp", "rtsp",
                "rtsps", "rtspu", "sip", "sips", "mms", "sftp", "tel"}

\* The value of an expression, computed once and named: Only({e : x \in {v}})
\* is e with x standing for v.
Only(S) == CHOOSE x \in S : TRUE

\* urlsplit(url, scheme): the leading whitespace goes, a scheme is a letter
\* followed by scheme characters up to the first colon, the network location
\* follows "//" up to the first of "/?#", then the fragment and the query are
\* cut off at their first "#" and "?".  u0 is the url without the whitespace,
\* u1 what follows the scheme, u2 what follows the network location, u3 what
\* precedes the fragment.
urlsplit(url, scheme) ==
    Only({
      LET i == IndexOf(":", u0)
          hasScheme == /\ i > 1
                       /\ IsIn(CharAt(u0, 1), LowerAlpha \o UpperAlpha)
                       /\ \A j \in 1..(i - 1) : IsIn(CharAt(u0, j), scheme_chars)
      IN Only({
        LET hasNetloc == StartsWith(u1, "//")
            delims == {j \in 3..Len(u1) : IsIn(CharAt(u1, j), "/?#")}
            delim == IF delims = {} THEN Len(u1) + 1 ELSE Least(delims)
        IN Only({
          LET h == IndexOf("#", u2)
          IN Only({
            LET q == IndexOf("?", u3)
            IN [scheme |-> IF hasScheme THEN Lower(SubSeq(u0, 1, i - 1)) ELSE scheme,
                netloc |-> IF hasNetloc THEN SubSeq(u1, 3, delim - 1) ELSE "",
                path |-> IF q > 0 THEN SubSeq(u3, 1, q - 1) ELSE u3,
                query |-> IF q > 0 THEN SubSeq(u3, q + 1, Len(u3)) ELSE "",
                fragment |-> IF h > 0 THEN SubSeq(u2, h + 1, Len(u2)) ELSE ""] :
            u3 \in {IF h > 0 THEN SubSeq(u2, 1, h - 1) ELSE u2}}) :
          u2 \in {IF hasNetloc THEN SubSeq(u1, delim, Len(u1)) ELSE u1}}) :
        u1 \in {IF hasScheme THEN SubSeq(u0, i + 1, Len(u0)) ELSE u0}}) :
      u0 \in {LStrip(url, Whitespace)}})

\* _splitparams(url): the position of the ";" that starts the parameters of
\* the last segment, 0 when the path is returned whole.
ParamsAt(p) ==
    IF IsIn("/", p)
    THEN IndexFrom(";", p, LastIndexOf("/", p))
    ELSE IndexOf(";", p)

\* urlparse(url, scheme)
urlparse(url, scheme) ==
    Only({Only({
        [scheme |-> sp.scheme,
         netloc |-> sp.netloc,
         path |-> IF semi > 0 THEN SubSeq(sp.path, 1, semi - 1) ELSE sp.path,
         params |-> IF semi > 0 THEN SubSeq(sp.path, semi + 1, Len(sp.path)) ELSE "",
         query |-> sp.query,
         fragment |-> sp.fragment] :
        semi \in {IF sp.scheme \in uses_params /\ IsIn(";", sp.path)
                  THEN ParamsAt(sp.path) ELSE 0}}) :
      sp \in {urlsplit(url, scheme)}})

\* urlunparse(components): the scheme and ":", "//" and the network location,
\* the path with its parameters, "?" and the query, "#" and the fragment.
urlunparse(c) ==
    LET u1 == IF c.params # "" THEN c.path \o ";" \o c.params ELSE c.path
    IN (IF c.scheme # "" THEN c.scheme \o ":" ELSE "")
       \o (IF c.netloc # ""
              \/ (c.scheme # "" /\ c.scheme \in uses_netloc /\ ~StartsWith(u1, "//"))
           THEN "//" \o c.netloc \o (IF u1 # "" /\ ~StartsWith(u1, "/") THEN "/" ELSE "")
           ELSE "")
       \o u1
       \o (IF c.query # "" THEN "?" \o c.query ELSE "")
       \o (IF c.fragment # "" THEN "#" \o c.fragment ELSE "")

\* The loop of urljoin over the segments from position i on: ".." drops the
\* last resolved segment when there is one, "." is passed over.
RECURSIVE Resolve(_, _, _)
Resolve(segments, i, resolved) ==
    IF i > Len(segments) THEN resolved
    ELSE IF segments[i] = ".."
         THEN Resolve(segments, i + 1, SubSeq(resolved, 1, Len(resolved) - 1))
    ELSE IF segments[i] = "." THEN Resolve(segments, i + 1, resolved)
    ELSE Resolve(segments, i + 1, Append(resolved, segments[i]))

\* The segments of a relative path after those of the base path: the empty
\* segments between the first and the last are filtered out.
Filtered(segments) ==
    LET n == Len(segments)
        keep == {i \in 1..n : i = 1 \/ i = n \/ segments[i] # ""}
        Kept(k) == CHOOSE i \in keep : Cardinality({j \in keep : j < i}) = k - 1
    IN [k \in 1..Cardinality(keep) |-> segments[Kept(k)]]

\* The segments urljoin resolves: those of the url's path when it starts at
\* the root, else those of the base path without its last one, followed by
\* the url's.
Segments(bpath, upath) ==
    IF StartsWith(upath, "/") THEN Split(upath, "/")
    ELSE Only({Filtered((IF parts[Len(parts)] # "" THEN SubSeq(parts, 1, Len(parts) - 1)
                         ELSE parts) \o Split(upath, "/")) :
               parts \in {Split(bpath, "/")}})

\* urljoin(base, url) for a base and a url that are not empty.
urljoin(base, url) ==
    Only({Only({
      LET netloc == IF u.scheme \in uses_netloc THEN b.netloc ELSE u.netloc IN
      IF u.scheme # b.scheme \/ u.scheme \notin uses_relative THEN url
      ELSE IF u.scheme \in uses_netloc /\ u.netloc # "" THEN urlunparse(u)
      ELSE IF u.path = "" /\ u.params = ""
           THEN urlunparse([scheme |-> u.scheme, netloc |-> netloc, path |-> b.path,
                            params |-> b.params,
                            query |-> IF u.query = "" THEN b.query ELSE u.query,
                            fragment |-> u.fragment])
      ELSE Only({
             urlunparse([scheme |-> u.scheme, netloc |-> netloc,
                         path |-> IF joined = "" THEN "/" ELSE joined,
                         params |-> u.params, query |-> u.query,
                         fragment |-> u.fragment]) :
             joined \in {Only({
                Join(Resolve(segments, 1, <<>>)
                     \o (IF segments[Len(segments)] \in {".", ".."} THEN <<"">> ELSE <<>>),
                     "/") :
                segments \in {Segments(b.path, u.path)}})}}) :
      u \in {urlparse(url, b.scheme)}}) :
      b \in {urlparse(base, "")}})

\* urlparse(url).path
UrlPath(url) == urlparse(url, "").path

\* urljoin(BASE, href), for the href of an element: None when the attribute
\* is missing.
UrlJoin(href) == IF href = None \/ href = "" THEN BASE ELSE urljoin(BASE, href)

----------------------------------------------------------------------------
(* slug_from_url, clean_id *)

slug_from_url(url) ==
    LET last == LastSegment(Strip(UrlPath(url), "/"), "/")
    IN Replace(Upper(IF last = "" THEN "producto" ELSE last), "-", "_")

IdChars == UpperAlpha \o Digits \o "_-"

\* The text is filtered as written, not uppercased.
clean_id_NoUpper(text) ==
    LET t == Strip(IF text = None THEN "" ELSE text, Whitespace)
        kept == KeepOnly(t, IdChars)
    IN IF kept = "" THEN None ELSE kept

clean_id(text) ==
    LET t == Upper(Strip(IF text = None THEN "" ELSE text, Whitespace))
        kept == KeepOnly(t, IdChars)
    IN IF kept = "" THEN None ELSE kept

----------------------------------------------------------------------------
(* parse_width_cm *)

IsDigit(c) == IsIn(c, Digits)

\* The length of the longest run of digits of t that starts at position i.
DigitRun(t, i) ==
    LET stops == {j \in i..Len(t) : ~IsDigit(CharAt(t, j))}
    IN (IF stops = {} THEN Len(t) + 1 ELSE Least(stops)) - i

\* The first position from i on that holds no whitespace: what \s* leaves.
SkipSpace(t, i) ==
    LET stops == {j \in i..Len(t) : ~IsIn(CharAt(t, j), Whitespace)}
    IN IF stops = {} THEN Len(t) + 1 ELSE Least(stops)

\* \s*cm matches at position i, whatever the case of the letters.
UnitAt(t, i) ==
    LET j == SkipSpace(t, i)
    IN j + 1 <= Len(t) /\ Lower(SubSeq(t, j, j + 1)) = "cm"

\* The text of group 1 of a match of (\d+(?:[.,]\d+)?)\s*cm that starts at
\* position i, None when there is none.  The runs of digits are taken whole:
\* a shorter run is followed by a digit, where neither [.,] nor \s*cm matches.
WidthMatchAt(t, i) ==
    LET n == DigitRun(t, i)
        j == i + n
        m == IF j <= Len(t) /\ IsIn(CharAt(t, j), ".,") THEN DigitRun(t, j + 1) ELSE 0
    IN IF n = 0 THEN None
       ELSE IF m > 0 /\ UnitAt(t, j + 1 + m) THEN SubSeq(t, i, j + m)
       ELSE IF UnitAt(t, j) THEN SubSeq(t, i, j - 1)
       ELSE None

\* re.search: the match of the leftmost position that has one.
WidthSearch(t) ==
    LET starts == {i \in 1..Len(t) : IsDigit(CharAt(t, i)) /\ WidthMatchAt(t, i) # None}
    IN IF starts = {} THEN None ELSE WidthMatchAt(t, Least(starts))

----------------------------------------------------------------------------
(* float and its text in json.dump                                          *)
(*                                                                          *)
(* A natural number of any size is the sequence of its decimal digits, the  *)
(* least significant first and the most significant not zero; zero is <<>>. *)

\* The digit at position i, 0 beyond the most significant one.
Dig(a, i) == IF i <= Len(a) THEN a[i] ELSE 0

\* The highest position of lo..hi that holds a digit other than 0, 0 if none.
RECURSIVE TopDigit(_, _, _)
TopDigit(a, lo, hi) ==
    IF lo > hi THEN 0
    ELSE IF lo = hi THEN (IF a[lo] # 0 THEN lo ELSE 0)
    ELSE LET top == TopDigit(a, (lo + hi) \div 2 + 1, hi)
         IN IF top # 0 THEN top ELSE TopDigit(a, lo, (lo + hi) \div 2)

\* The number without leading zeros.
Trim(a) == SubSeq(a, 1, TopDigit(a, 1, Len(a)))

\* int(s) for a text of digits.
BigOf(s) == Trim([i \in 1..Len(s) |-> IndexOf(CharAt(s, Len(s) + 1 - i), Digits) - 1])

\* The sign of a - b on the positions lo..hi.
RECURSIVE CmpRange(_, _, _, _)
CmpRange(a, b, lo, hi) ==
    IF lo > hi THEN 0
    ELSE IF lo = hi THEN (IF a[lo] < b[lo] THEN -1 ELSE IF a[lo] > b[lo] THEN 1 ELSE 0)
    ELSE LET high == CmpRange(a, b, (lo + hi) \div 2 + 1, hi)
         IN IF high # 0 THEN high ELSE CmpRange(a, b, lo, (lo + hi) \div 2)

\* The sign of a - b.
Cmp(a, b) ==
    IF Len(a) < Len(b) THEN -1
    ELSE IF Len(a) > Len(b) THEN 1
    ELSE CmpRange(a, b, 1, Len(a))

\* The digits lo..hi of a + b + c and the carry out of them, c the carry in.
RECURSIVE AddRange(_, _, _, _, _)
AddRange(a, b, lo, hi, c) ==
    IF lo = hi
    THEN [digits |-> <<(Dig(a, lo) + Dig(b, lo) + c) % 10>>,
          carry |-> (Dig(a, lo) + Dig(b, lo) + c) \div 10]
    ELSE LET low == AddRange(a, b, lo, (lo + hi) \div 2, c)
             high == AddRange(a, b, (lo + hi) \div 2 + 1, hi, low.carry)
         IN [digits |-> low.digits \o high.digits, carry |-> high.carry]

Add(a, b) ==
    LET n == IF Len(a) > Len(b) THEN Len(a) + 1 ELSE Len(b) + 1
    IN Trim(AddRange(a, b, 1, n, 0).digits)

\* The digits lo..hi of a - b - c and the borrow out of them, c the borrow in.
RECURSIVE SubRange(_, _, _, _, _)
SubRange(a, b, lo, hi, c) ==
    IF lo = hi
    THEN [digits |-> <<(Dig(a, lo) - Dig(b, lo) - c + 10) % 10>>,
          borrow |-> IF Dig(a, lo) - Dig(b, lo) - c < 0 THEN 1 ELSE 0]
    ELSE LET low == SubRange(a, b, lo, (lo + hi) \div 2, c)
             high == SubRange(a, b, (lo + hi) \div 2 + 1, hi, low.borrow)
         IN [digits |-> low.digits \o high.digits, borrow |-> high.borrow]

\* a - b, for a >= b.
Sub(a, b) == IF a = <<>> THEN <<>> ELSE Trim(SubRange(a, b, 1, Len(a), 0).digits)

\* 2 * a: a digit doubles and takes the carry of the digit below it.
Twice(a) ==
    Trim([i \in 1..(Len(a) + 1) |->
            ((2 * Dig(a, i)) % 10) + (IF i > 1 /\ a[i - 1] >= 5 THEN 1 ELSE 0)])

\* a * 10^n
Shift10(a, n) == IF a = <<>> THEN <<>> ELSE [i \in 1..n |-> 0] \o a

\* a * 2^n
RECURSIVE TimesPow2(_, _)
TimesPow2(a, n) ==
    IF n = 0 \/ a = <<>> THEN a
    ELSE IF n = 1 THEN Twice(a)
    ELSE TimesPow2(TimesPow2(a, n \div 2), n - n \div 2)

One == <<1>>

\* 2^52 and 2^53: the least significand of a normal double, and the bound
\* of the significands.
MinNormal == TimesPow2(One, 52)

MaxSignificand == TimesPow2(One, 53)

IsOdd(a) == a # <<>> /\ a[1] % 2 = 1

\* The text of the digits, most significant first.
DigitText(a) == Join([i \in 1..Len(a) |-> CharAt(Digits, a[Len(a) + 1 - i] + 1)], "")

\* str(n) for a natural number n below 10^9.
NatText(n) == IF n = 0 THEN "0" ELSE
    LET len == Least({k \in 1..9 : n < 10^k})
    IN Join([i \in 1..len |-> CharAt(Digits, ((n \div 10^(len - i)) % 10) + 1)], "")

\* The greatest e with den * 2^e <= num, counted up from e; num >= den * 2^e.
RECURSIVE ExponentFrom(_, _, _)
ExponentFrom(num, den, e) ==
    IF Cmp(num, Twice(den)) < 0 THEN [num |-> num, den |-> den, e |-> e]
    ELSE ExponentFrom(num, Twice(den), e + 1)

\* The quotient num / den as [num, den, e]: num/den * 2^e with 1 <= num/den < 2.
\* The count starts at a power of two below the quotient: a number of d digits
\* is 10^(d-1) at least, and log2(10) lies between 3.321 and 3.322.
Normalized(num, den) ==
    LET t == Len(num) - Len(den)
        e0 == IF t >= 0 THEN (t * 3321) \div 1000 ELSE 0 - (((0 - t) * 3322 + 999) \div 1000)
    IN IF e0 >= 0 THEN ExponentFrom(num, TimesPow2(den, e0), e0)
       ELSE ExponentFrom(TimesPow2(num, 0 - e0), den, e0)

\* The bits of rem/den < 1 that follow the significand m until it reaches
\* full, and what is left.
RECURSIVE Bits(_, _, _, _)
Bits(m, rem, den, full) ==
    IF Cmp(m, full) >= 0 THEN [m |-> m, rem |-> rem]
    ELSE IF Cmp(Twice(rem), den) >= 0
         THEN Bits(Add(Twice(m), One), Sub(Twice(rem), den), den, full)
    ELSE Bits(Twice(m), Twice(rem), den, full)

\* float(v) for digits with an optional fraction after a period: the double
\* nearest to the number, the one with the even significand of two that are
\* as near.  The double is [m, q] for m * 2^q, [inf |-> TRUE] beyond the
\* doubles; the significand of a normal double has 53 bits, q is -1074 at least.
Double(v) ==
    LET dot == IndexOf(".", v)
        Zero == [inf |-> FALSE, m |-> <<>>, q |-> 0]
        Inf == [inf |-> TRUE, m |-> <<>>, q |-> 0]
    IN Only({
         LET t == Len(num) - Len(den)
         IN IF num = <<>> THEN Zero
            ELSE IF t > 320 THEN Inf
            ELSE IF t < -340 THEN Zero
            ELSE Only({
              LET p == IF x.e >= -1022 THEN 53 ELSE x.e + 1075
              IN IF p <= 0
                 THEN (IF p = 0 /\ Cmp(x.num, x.den) # 0
                       THEN [inf |-> FALSE, m |-> One, q |-> -1074]
                       ELSE Zero)
                 ELSE Only({
                   LET half == Cmp(Twice(b.rem), x.den)
                       up == half > 0 \/ (half = 0 /\ IsOdd(b.m))
                   IN Only({
                     LET carried == Cmp(m, MaxSignificand) = 0
                         q == x.e - p + 1 + (IF carried THEN 1 ELSE 0)
                     IN IF q > 971 THEN Inf
                        ELSE [inf |-> FALSE, m |-> IF carried THEN MinNormal ELSE m,
                              q |-> q] :
                     m \in {IF up THEN Add(b.m, One) ELSE b.m}}) :
                   b \in {Bits(One, Sub(x.num, x.den), x.den, TimesPow2(One, p - 1))}}) :
              x \in {Normalized(num, den)}}) :
         num \in {BigOf(IF dot = 0 THEN v
                        ELSE SubSeq(v, 1, dot - 1) \o SubSeq(v, dot + 1, Len(v)))},
         den \in {Shift10(One, IF dot = 0 THEN 0 ELSE Len(v) - dot)}})

\* The double m * 2^q between its neighbours, as fractions of one
\* denominator: r/s is the double, (r - lo)/s and (r + hi)/s are the halfway
\* points to the doubles below and above it.  The double below a power of two
\* is half as far.
Scaled(m, q) ==
    LET narrow == Cmp(m, MinNormal) = 0 /\ q > -1074
    IN Only({
         LET e == IF wide = 2 THEN q - 2 ELSE q - 1
         IN [r |-> IF e >= 0 THEN TimesPow2(m2, e) ELSE m2,
             s |-> IF e >= 0 THEN One ELSE TimesPow2(One, 0 - e),
             hi |-> IF e >= 0 THEN TimesPow2(<<wide>>, e) ELSE <<wide>>,
             lo |-> IF e >= 0 THEN TimesPow2(One, e) ELSE One] :
         wide \in {IF narrow THEN 2 ELSE 1},
         m2 \in {IF narrow THEN Twice(Twice(m)) ELSE Twice(m)}})

\* The point hi above r/s is within 10^0: below it, or on it when the halfway
\* points read back as the other double (an odd significand).
Within(f, even) ==
    Only({IF even THEN c < 0 ELSE c <= 0 : c \in {Cmp(Add(f.r, f.hi), f.s)}})

\* The least k for which the upper halfway point is within 10^k, counted up
\* from k, with the fraction divided by 10^k.
RECURSIVE PointFrom(_, _, _)
PointFrom(f, even, k) ==
    IF Within(f, even) THEN [f |-> f, k |-> k]
    ELSE PointFrom([f EXCEPT !.s = Shift10(f.s, 1)], even, k + 1)

\* The same, counted down: the fraction is multiplied by 10 while the upper
\* halfway point times 10 is within 10^0 still.
RECURSIVE PointDown(_, _, _)
PointDown(f, even, k) ==
    Only({IF Within(g, even) THEN PointDown(g, even, k - 1) ELSE [f |-> f, k |-> k] :
          g \in {[r |-> Shift10(f.r, 1), s |-> f.s, hi |-> Shift10(f.hi, 1),
                  lo |-> Shift10(f.lo, 1)]}})

\* The position of the decimal point of m * 2^q and the fraction scaled to
\* it.  The count starts below the position: m is 10^(d-1) at least for its d
\* digits, and log10(2) lies between 0.30102 and 0.30103.
Pointed(m, q, even) ==
    LET k0 == Len(m) - 1
              + (IF q >= 0 THEN (q * 30102) \div 100000
                 ELSE 0 - (((0 - q) * 30103 + 99999) \div 100000))
    IN Only({PointDown(up.f, even, up.k) :
             up \in {Only({
                PointFrom(IF k0 >= 0 THEN [f EXCEPT !.s = Shift10(f.s, k0)]
                          ELSE [r |-> Shift10(f.r, 0 - k0), s |-> f.s,
                                hi |-> Shift10(f.hi, 0 - k0), lo |-> Shift10(f.lo, 0 - k0)],
                          even, k0) :
                f \in {Scaled(m, q)}})}})

\* The quotient (a digit) and the remainder of r by s, for r < 10 * s.
RECURSIVE DivMod(_, _, _)
DivMod(r, s, d) ==
    IF Cmp(r, s) < 0 THEN [d |-> d, r |-> r] ELSE DivMod(Sub(r, s), s, d + 1)

\* The digits of the shortest decimal that reads back as the double, most
\* significant first, after the digits ds: a digit is the last one as soon as
\* what is left of the double is within the halfway points, and is then
\* rounded to the nearer decimal, to the even digit of two as near.
RECURSIVE Shortest(_, _, _)
Shortest(f, even, ds) ==
    Only({
      LET low == IF even THEN Cmp(dm.r, lo) <= 0 ELSE Cmp(dm.r, lo) < 0
      IN Only({
           IF ~low /\ ~high
           THEN Shortest([r |-> dm.r, s |-> f.s, hi |-> hi, lo |-> lo], even,
                         Append(ds, dm.d))
           ELSE IF low /\ ~high THEN Append(ds, dm.d)
           ELSE IF high /\ ~low THEN Append(ds, dm.d + 1)
           ELSE Only({IF half < 0 THEN Append(ds, dm.d)
                      ELSE IF half > 0 THEN Append(ds, dm.d + 1)
                      ELSE Append(ds, IF dm.d % 2 = 1 THEN dm.d + 1 ELSE dm.d) :
                      half \in {Cmp(Twice(dm.r), f.s)}}) :
           high \in {Only({IF even THEN c >= 0 ELSE c > 0 :
                           c \in {Cmp(Add(dm.r, hi), f.s)}})}}) :
      dm \in {DivMod(Shift10(f.r, 1), f.s, 0)},
      hi \in {Shift10(f.hi, 1)},
      lo \in {Shift10(f.lo, 1)}})

\* float.__repr__ from the digits of the shortest decimal, most significant
\* first, and the position of the decimal point: 0.d1d2... * 10^decpt.
ReprText(ds, decpt) ==
    LET n == Len(ds)
        zeros(k) == Join([i \in 1..k |-> "0"], "")
        e == decpt - 1
        mag == IF e < 0 THEN 0 - e ELSE e
    IN Only({
         IF decpt <= -4 \/ decpt > 16
         THEN SubSeq(text, 1, 1) \o (IF n > 1 THEN "." \o SubSeq(text, 2, n) ELSE "")
              \o "e" \o (IF e < 0 THEN "-" ELSE "+")
              \o (IF mag < 10 THEN "0" ELSE "") \o NatText(mag)
         ELSE IF decpt <= 0 THEN "0." \o zeros(0 - decpt) \o text
         ELSE IF decpt >= n THEN text \o zeros(decpt - n) \o ".0"
         ELSE SubSeq(text, 1, decpt) \o "." \o SubSeq(text, decpt + 1, n) :
         text \in {Join([i \in 1..n |-> CharAt(Digits, ds[i] + 1)], "")}})

\* The text json.dump writes for the double x.
FloatText(x) ==
    IF x.inf THEN "Infinity"
    ELSE IF x.m = <<>> THEN "0.0"
    ELSE Only({ReprText(Shortest(pt.f, ~IsOdd(x.m), <<>>), pt.k) :
               pt \in {Pointed(x.m, x.q, ~IsOdd(x.m))}})

\* The digits of v from its first digit other than 0 to its last, most
\* significant first, and the position of the decimal point before them.
Significant(v) ==
    LET dot == IndexOf(".", v)
    IN Only({
         Only({[ds |-> [i \in 1..Len(sig) |-> IndexOf(CharAt(sig, i), Digits) - 1],
                decpt |-> (IF dot = 0 THEN Len(v) ELSE dot - 1)
                          - (Len(all) - Len(LStrip(all, "0")))] :
               sig \in {Strip(all, "0")}}) :
         all \in {IF dot = 0 THEN v
                  ELSE SubSeq(v, 1, dot - 1) \o SubSeq(v, dot + 1, Len(v))}})

\* float(v) as json.dump writes it.  A decimal of 15 digits or less is the
\* shortest decimal of the double nearest to it (DBL_DIG), so that its own
\* digits are written; the double is computed for the longer ones.
ToFloat(v) ==
    IF Len(v) <= 15
    THEN Only({IF sg.ds = <<>> THEN "0.0" ELSE ReprText(sg.ds, sg.decpt) :
               sg \in {Significant(v)}})
    ELSE Only({FloatText(x) : x \in {Double(v)}})

parse_width_cm(text) ==
    IF text = None \/ text = "" THEN None
    ELSE Only({IF g = None THEN None ELSE ToFloat(Replace(g, ",", ".")) :
               g \in {WidthSearch(text)}})

----------------------------------------------------------------------------
(* guess_style_and_color *)

\* mapc, in the order of the dict literal.
mapc == <<
    <<"negro", "#111111">>,
    <<"blanco", "#f5f5f5">>,
    <<"nogal", "#6b3f21">>,
    <<"caoba", "#7a3b1f">>,
    <<"chocolate", "#4b2b1a">>,
    <<"natural", "#c9b18c">>,
    <<"maple", "#e0b977">>,
    <<"wengue", "#3a2a1a">>,
    <<"roble", "#916c44">>,
    <<"azul", "#1f3a5a">>,
    <<"gris", "#777777">>,
    <<"plata", "#c0c0c0">>,
    <<"dorado", "#c7a446">>,
    <<"oro", "#c7a446">>,
    <<"bronce", "#8c6b3f">>,
    <<"marfil", "#f0eee6">> >>

MetalWords == <<"plata", "dorado", "oro", "bronce", "metal">>

\* The for loop over mapc.items() from entry i on, with its break.
RECURSIVE ColorFrom(_, _)
ColorFrom(t, i) ==
    IF i > Len(mapc) THEN "#555555"
    ELSE IF Contains(mapc[i][1], t) THEN mapc[i][2]
    ELSE ColorFrom(t, i + 1)

\* The name is searched as written, not lowercased.
guess_style_and_color_NoLower(name) ==
    LET t == IF name = None THEN "" ELSE name
    IN [style |-> IF \E i \in 1..Len(MetalWords) : Contains(MetalWords[i], t)
                  THEN "metal" ELSE "grain",
        color |-> ColorFrom(t, 1)]

guess_style_and_color(name) ==
    LET t == Lower(IF name = None THEN "" ELSE name)
    IN [style |-> IF \E i \in 1..Len(MetalWords) : Contains(MetalWords[i], t)
                  THEN "metal" ELSE "grain",
        color |-> ColorFrom(t, 1)]

----------------------------------------------------------------------------
(* extract_product *)

\* not x, for a text or None.
Falsy(x) == x = None \/ x = ""

\* The product page as the selectors of extract_product see it: the text of
\* the title element and of the sku element, the content of the og:image
\* meta tag, the data-large_image and src of the gallery image and the src of
\* the wp-post-image; None where the element or the attribute is missing.
image_url(soup) ==
    IF ~Falsy(soup.og) THEN UrlJoin(soup.og)
    ELSE IF ~Falsy(soup.large) THEN UrlJoin(soup.large)
    ELSE IF ~Falsy(soup.gsrc) THEN UrlJoin(soup.gsrc)
    ELSE IF ~Falsy(soup.wpi) THEN UrlJoin(soup.wpi)
    ELSE None

\* el.get_text(sep, strip=True) for an element with one text: the text without
\* the whitespace around it; None for no element stays None.
get_text(text) == IF text = None THEN None ELSE Strip(text, Whitespace)

product_id(url, soup) ==
    Only({IF Falsy(sku) THEN clean_id(slug_from_url(url)) ELSE sku :
          sku \in {clean_id(get_text(soup.sku))}})

extract_product(url, soup) ==
    Only({Only({[id |-> product_id(url, soup),
                 name |-> title,
                 width_cm |-> parse_width_cm(title),
                 color |-> sc.color,
                 style |-> sc.style,
                 img_url |-> image_url(soup)] :
                sc \in {guess_style_and_color(title)}}) :
          title \in {IF soup.title = None THEN slug_from_url(url)
                     ELSE get_text(soup.title)}})

----------------------------------------------------------------------------
(* The aggregation mapping of main: a dict in insertion order, as the        *)
(* sequence of its values.                                                   *)

\* pid in products
HasKey(prods, pid) == \E i \in 1..Len(prods) : prods[i].id = pid

\* The test left out: every extracted product is taken for new.
InProducts_Dropped(pid, prods) == FALSE

\* The test of main before it downloads and inserts: pid in products.
InProducts(pid, prods) == HasKey(prods, pid)

\* products[pid] = rec
DictSet(prods, pid, rec) ==
    IF HasKey(prods, pid)
    THEN [i \in 1..Len(prods) |-> IF prods[i].id = pid THEN rec ELSE prods[i]]
    ELSE Append(prods, rec)

\* os.path.join(OUT_DIR, f"{pid}.jpg")
ImgPath(pid) == OUT_DIR \o "/" \o pid \o ".jpg"

\* The path is stored whatever download_image returned.
MakeRec_PathAlways(data, ok) ==
    [id |-> data.id,
     name |-> data.name,
     width_cm |-> data.width_cm,
     color |-> data.color,
     style |-> data.style,
     img |-> Replace(ImgPath(data.id), "\\", "/")]

\* The extracted fields are stored only with a downloaded image.
MakeRec_BareOnFailure(data, ok) ==
    [id |-> data.id,
     name |-> IF ok THEN data.name ELSE None,
     width_cm |-> IF ok THEN data.width_cm ELSE None,
     color |-> IF ok THEN data.color ELSE None,
     style |-> IF ok THEN data.style ELSE None,
     img |-> IF ok THEN Replace(ImgPath(data.id), "\\", "/") ELSE None]

\* The record main builds from the extracted data and the download's result.
MakeRec(data, ok) ==
    [id |-> data.id,
     name |-> data.name,
     width_cm |-> data.width_cm,
     color |-> data.color,
     style |-> data.style,
     img |-> IF ok THEN Replace(ImgPath(data.id), "\\", "/") ELSE None]

----------------------------------------------------------------------------
(* The site *)

CATEGORIAS == <<"https://www.marcosymarcos.mx/categoria/molduras/poliestireno/">>

\* The listing pages of the category go up to page MaxPage.
MaxPage == 2

PageUrl(k) == CATEGORIAS[1] \o "page/" \o CharAt(Digits, k + 1) \o "/"

ListingUrls == {CATEGORIAS[i] : i \in 1..Len(CATEGORIAS)} \cup {PageUrl(k) : k \in 2..MaxPage}

\* The href of a listing page as the site writes it: a path from the root.
HrefOf(u) == SubSeq(u, Len(BASE), Len(u))

\* The next-page anchors a listing page may carry: none, or a link to the
\* page after it, or a link back to the first page.
NextHrefs(u) ==
    {None, HrefOf(CATEGORIAS[1])}
    \cup {HrefOf(PageUrl(k)) : k \in {j \in 2..MaxPage : u = CATEGORIAS[1] /\ j = 2}}
    \cup {HrefOf(PageUrl(k + 1)) : k \in {j \in 2..(MaxPage - 1) : u = PageUrl(j)}}

\* The anchors of the listing pages: grid holds the hrefs of the anchors of
\* the catalog grid (None for an anchor without href), other the hrefs of the
\* other anchors of the page.
StockedAnchors(u) ==
    IF u = CATEGORIAS[1]
    THEN [grid |-> {"/producto/ab-1/", "https://www.marcosymarcos.mx/producto/AB_1"},
          other |-> {"HTTPS://www.marcosymarcos.mx/producto/ab-1/?", "/categoria/molduras/"}]
    ELSE [grid |-> {None}, other |-> {"/producto/~~/"}]

EmptyAnchors(u) == [grid |-> {}, other |-> {"/contacto/"}]

Stocks == {"stocked", "empty"}

Anchors(stock, u) == IF stock = "stocked" THEN StockedAnchors(u) ELSE EmptyAnchors(u)

Webs ==
    {[u \in ListingUrls |-> [grid |-> Anchors(st, u).grid,
                             other |-> Anchors(st, u).other,
                             nxt |-> nx[u]]] :
        st \in Stocks, nx \in {f \in [ListingUrls -> UNION {NextHrefs(u) : u \in ListingUrls}] :
                                  \A u \in ListingUrls : f[u] \in NextHrefs(u)}}

\* The product pages the site may answer with.
Soups == {
    [title |-> "Moldura Poliestireno Nogal 3.0 cm", sku |-> "mp-301",
     og |-> "/wp-content/uploads/nogal.jpg", large |-> None, gsrc |-> None, wpi |-> None],
    [title |-> None, sku |-> None,
     og |-> None, large |-> None, gsrc |-> "https://www.marcosymarcos.mx/wp-content/uploads/slug.jpg",
     wpi |-> "/wp-content/uploads/thumb.jpg"],
    [title |-> "Marco Plata Metalico 5 cm", sku |-> " ## ",
     og |-> "", large |-> None, gsrc |-> None, wpi |-> None],
    [title |-> " Marco ORO 2,5CM ", sku |-> " m#p-301/ ",
     og |-> None, large |-> None, gsrc |-> None, wpi |-> "wp-content/uploads/oro.jpg"] }

\* The absolute urls of the anchors that find_product_links collects from a page.
AnchorLinks(grid, other) ==
    {UrlJoin(h) : h \in grid}
    \cup {UrlJoin(h) : h \in {x \in (grid \cup other) : x # None /\ Contains("/producto/", x)}}

\* Every link find_product_links can return on this site.
ProductUrls ==
    UNION {AnchorLinks(Anchors(st, u).grid, Anchors(st, u).other) : st \in Stocks, u \in ListingUrls}


----------------------------------------------------------------------------
(* State *)

VARIABLES
    web,          \* the listing pages of the site, by url
    pc,           \* where main is: "main" (head of the loop over CATEGORIAS),
                  \* "find" (the while loop of find_product_links), "products"
                  \* (head of the loop over the links), "done" (returned) or
                  \* "aborted" (left by an uncaught exception)
    ci,           \* the number of categories main has started
    url,          \* find_product_links: the page to fetch next
    seen,         \* find_product_links: the links collected so far
    links,        \* the list find_product_links returned to main
    pi,           \* the position in links of the product main takes next
    products,     \* the aggregation mapping, as the sequence of its values
    lastGet,      \* the last call of get_soup: its url and whether it returned
    soup,         \* the product page the last call of extract_product parsed,
                  \* NoSoup when its get_soup raised
    ok,           \* what download_image returned in the last iteration of the
                  \* product loop, None when the iteration did not call it
    slept,        \* whether the last iteration of a loop ended with time.sleep
    imgRequests,  \* the image urls download_image has requested
    disk,         \* the files of OUT_DIR: pairs of a path and what it holds
    file,         \* OUT_JSON: absent, old (as an earlier run left it), whole
                  \* (holding the array content) or partial (cut short)
    writes,       \* how many times main has opened OUT_JSON for writing
    first,        \* history: for every id, the record built from the first
                  \* product whose extraction resolved to it
    title,        \* the name guess_style_and_color is applied to on its own
    guess         \* what it returned, NoGuess before the call

vars == <<web, pc, ci, url, seen, links, pi, products, lastGet, soup, ok, slept,
          imgRequests, disk, file, writes, first, title, guess>>

main_vars == <<web, pc, ci, url, seen, links, pi, products, lastGet, soup, ok, slept,
               imgRequests, disk, file, writes, first>>

NoSoup == [title |-> None, sku |-> None, og |-> None, large |-> None, gsrc |-> None,
           wpi |-> None]

\* str(b) for a bool.
PyBool(b) == IF b THEN "True" ELSE "False"

NoGuess == [style |-> None, color |-> None]

\* What a file of OUT_DIR holds: the bytes of the response to the request for
\* the url from, all of them or a part, or what an earlier run left there.
Bytes(from, whole) == [from |-> from, whole |-> whole]

Old == Bytes(None, TRUE)

NoFile == [state |-> "absent", content |-> <<>>]

OldFile == [state |-> "old", content |-> <<>>]

\* The file at path holds content from now on.
Written(files, path, content) == {f \in files : f[1] # path} \cup {<<path, content>>}

Init ==
    /\ title = None
    /\ guess = NoGuess
    /\ web \in Webs
    /\ pc = "main"
    /\ ci = 0
    /\ url = None
    /\ seen = {}
    /\ links = <<>>
    /\ pi = 1
    /\ products = <<>>
    /\ lastGet = [url |-> None, ok |-> FALSE]
    /\ soup = NoSoup
    /\ ok = None
    /\ slept = FALSE
    /\ imgRequests = {}
    /\ disk \in {{}, {<<OUT_DIR \o "/MP-301.jpg", Old>>}}
    /\ file \in {NoFile, OldFile}
    /\ writes = 0
    /\ first = <<>>

----------------------------------------------------------------------------
(* find_product_links *)

\* The links one listing page adds to seen: every anchor of the catalog grid,
\* and every anchor whose href contains "/producto/".
PageLinks(page) == AnchorLinks(page.grid, page.other)

\* Where main stands once it holds the list ls and is at position i of it.
LoopHead(ls, i) == IF i > Len(ls) THEN "main" ELSE "products"

\* for cat in CATEGORIAS: the call of find_product_links(cat) begins.
NextCategory ==
    /\ pc = "main"
    /\ ci < Len(CATEGORIAS)
    /\ ci' = ci + 1
    /\ seen' = {}
    /\ url' = CATEGORIAS[ci + 1]
    /\ pc' = "find"
    /\ UNCHANGED <<web, links, pi, products, lastGet, soup, ok, slept, imgRequests,
                   disk, file, writes, first, title, guess>>

\* One iteration of the while loop whose get_soup returns; the iteration that
\* finds no next-page anchor returns sorted(seen) to main.
ListingFetched ==
    /\ pc = "find"
    /\ url \in DOMAIN web
    /\ \E nowSeen \in {seen \cup PageLinks(web[url])},
          nextUrl \in {IF web[url].nxt = None THEN None ELSE UrlJoin(web[url].nxt)} :
          /\ seen' = nowSeen
          /\ url' = nextUrl
          /\ lastGet' = [url |-> url, ok |-> TRUE]
          /\ slept' = TRUE
          /\ IF nextUrl = None
             THEN /\ links' = Sorted(nowSeen)
                  /\ pi' = 1
                  /\ pc' = LoopHead(links', 1)
             ELSE UNCHANGED <<links, pi, pc>>
    /\ UNCHANGED <<web, ci, products, soup, ok, imgRequests, disk, file, writes, first,
                   title, guess>>

\* The failure of a listing page taken for the end of the listing.
ListingFails_Swallowed ==
    /\ pc = "find"
    /\ lastGet' = [url |-> url, ok |-> FALSE]
    /\ url' = None
    /\ links' = Sorted(seen)
    /\ pi' = 1
    /\ pc' = LoopHead(links', 1)
    /\ UNCHANGED <<web, ci, seen, products, soup, ok, slept, imgRequests, disk, file,
                   writes, first, title, guess>>

\* get_soup raises for a listing page: nothing catches it in
\* find_product_links nor in main.
ListingFails ==
    /\ pc = "find"
    /\ lastGet' = [url |-> url, ok |-> FALSE]
    /\ pc' = "aborted"
    /\ UNCHANGED <<web, ci, url, seen, links, pi, products, soup, ok, slept,
                   imgRequests, disk, file, writes, first, title, guess>>

----------------------------------------------------------------------------
(* download_image and the body of main's loop over the links *)

\* How a call of download_image with a url can end: the request or the
\* opening of the file raises, the file is opened and the write raises, or the
\* bytes are written.
Outcomes == {"refused", "cut", "written"}

\* download_image(url, path) when it ends as net says and the files of
\* OUT_DIR are files: what it returns, whether it made the request, and the
\* files after it.  open(path, "wb") empties the file, the write fills it.
download_image(imgUrl, path, files, net) ==
    IF Falsy(imgUrl) THEN [ok |-> FALSE, requested |-> FALSE, files |-> files]
    ELSE IF net = "refused" THEN [ok |-> FALSE, requested |-> TRUE, files |-> files]
    ELSE IF net = "cut"
         THEN [ok |-> FALSE, requested |-> TRUE,
               files |-> Written(files, path, Bytes(imgUrl, FALSE))]
    ELSE [ok |-> TRUE, requested |-> TRUE, files |-> Written(files, path, Bytes(imgUrl, TRUE))]

\* The call of extract_product outside the try: its exception leaves main.
ProductRaises_Propagates ==
    /\ pc = "products"
    /\ pi <= Len(links)
    /\ lastGet' = [url |-> links[pi], ok |-> FALSE]
    /\ soup' = NoSoup
    /\ pc' = "aborted"
    /\ UNCHANGED <<web, ci, url, seen, links, pi, products, ok, slept, imgRequests, disk,
                   file, writes, first, title, guess>>

\* extract_product raises: the except clause of main prints and the loop goes on.
ProductRaises ==
    /\ pc = "products"
    /\ pi <= Len(links)
    /\ lastGet' = [url |-> links[pi], ok |-> FALSE]
    /\ soup' = NoSoup
    /\ ok' = None
    /\ slept' = FALSE
    /\ pi' = pi + 1
    /\ pc' = LoopHead(links, pi + 1)
    /\ UNCHANGED <<web, ci, url, seen, links, products, imgRequests, disk, file,
                   writes, first, title, guess>>

\* extract_product returns the data of the page sp; should main call
\* download_image, its request ends as net says.
ProductExtracted(sp) ==
    /\ pc = "products"
    /\ pi <= Len(links)
    /\ \E data \in {extract_product(links[pi], sp)} :
          /\ lastGet' = [url |-> links[pi], ok |-> TRUE]
          /\ soup' = sp
          /\ IF Falsy(data.id) \/ InProducts(data.id, products)
             THEN /\ ok' = None
                  /\ slept' = FALSE
                  /\ UNCHANGED <<products, imgRequests, disk>>
             ELSE \E net \in Outcomes :
                    \E dl \in {download_image(data.img_url, ImgPath(data.id), disk, net)} :
                       /\ ok' = PyBool(dl.ok)
                       /\ slept' = TRUE
                       /\ products' = DictSet(products, data.id, MakeRec(data, dl.ok))
                       /\ imgRequests' = IF dl.requested
                                         THEN imgRequests \cup {data.img_url}
                                         ELSE imgRequests
                       /\ disk' = dl.files
          /\ first' = IF Falsy(data.id) \/ HasKey(first, data.id) THEN first
                      ELSE Append(first, MakeRec(data, ok' = "True"))
    /\ pi' = pi + 1
    /\ pc' = LoopHead(links, pi + 1)
    /\ UNCHANGED <<web, ci, url, seen, links, file, writes, title, guess>>

\* The file written only when there is a record to write.
Dump_OnlyNonEmpty ==
    /\ pc = "main"
    /\ ci = Len(CATEGORIAS)
    /\ file' = IF products = <<>> THEN file ELSE [state |-> "whole", content |-> products]
    /\ writes' = IF products = <<>> THEN writes ELSE writes + 1
    /\ pc' = "done"
    /\ UNCHANGED <<web, ci, url, seen, links, pi, products, lastGet, soup, ok, slept,
                   imgRequests, disk, first, title, guess>>

\* After the last category: out = list(products.values()), json.dump.
Dump ==
    /\ pc = "main"
    /\ ci = Len(CATEGORIAS)
    /\ file' = [state |-> "whole", content |-> products]
    /\ writes' = writes + 1
    /\ pc' = "done"
    /\ UNCHANGED <<web, ci, url, seen, links, pi, products, lastGet, soup, ok, slept,
                   imgRequests, disk, first, title, guess>>

\* After the last category, and open or json.dump raises: nothing catches it.
\* A file that was opened is cut short.
DumpFails ==
    /\ pc = "main"
    /\ ci = Len(CATEGORIAS)
    /\ \E opened \in BOOLEAN :
          file' = IF opened THEN [state |-> "partial", content |-> <<>>] ELSE file
    /\ writes' = writes + 1
    /\ pc' = "aborted"
    /\ UNCHANGED <<web, ci, url, seen, links, pi, products, lastGet, soup, ok, slept,
                   imgRequests, disk, first, title, guess>>

Next ==
    \/ NextCategory
    \/ ListingFails
    \/ ListingFetched
    \/ ProductRaises
    \/ \E sp \in Soups : ProductExtracted(sp)
    \/ Dump
    \/ DumpFails

Spec == Init /\ [][Next]_vars

\* main runs on: a step that can be taken is taken.
FairSpec == Spec /\ WF_vars(Next)

----------------------------------------------------------------------------
(* guess_style_and_color on its own: the names are up to MaxWords of the     *)
(* pieces below, written one after the other.                                *)

MaxWords == 2

Pieces == {"negro", "blanco", "nogal", "caoba", "chocolate", "natural", "maple", "wengue",
           "roble", "azul", "gris", "plata", "dorado", "oro", "bronce", "marfil", "metal",
           "ORO", "Plata", "NEGRO", "Metalico", "o", "ro", "dec", " ", "3.0 cm"}

RECURSIVE Names(_)
Names(n) ==
    IF n = 0 THEN {""}
    ELSE Names(n - 1) \cup {a \o b : a \in Names(n - 1), b \in Pieces}

GuessInit ==
    /\ title \in Names(MaxWords)
    /\ guess = NoGuess
    /\ web = [u \in ListingUrls |-> [grid |-> {}, other |-> {}, nxt |-> None]]
    /\ pc = "done"
    /\ ci = 0
    /\ url = None
    /\ seen = {}
    /\ links = <<>>
    /\ pi = 1
    /\ products = <<>>
    /\ lastGet = [url |-> None, ok |-> FALSE]
    /\ soup = NoSoup
    /\ ok = None
    /\ slept = FALSE
    /\ imgRequests = {}
    /\ disk = {}
    /\ file = NoFile
    /\ writes = 0
    /\ first = <<>>

Guess ==
    /\ guess = NoGuess
    /\ title # None
    /\ guess' = guess_style_and_color(title)
    /\ UNCHANGED <<title, main_vars>>

GuessNext == Guess

GuessSpec == GuessInit /\ [][GuessNext]_vars

----------------------------------------------------------------------------
(* Properties *)

TypeOK ==
    /\ pc \in {"main", "find", "products", "done", "aborted"}
    /\ ci \in 0..Len(CATEGORIAS)
    /\ writes \in 0..1
    /\ file.state \in {"absent", "old", "whole", "partial"}

\* The last iteration of the product loop had extract_product return.
LastExtracted == pc \in {"products", "main", "done"} /\ pi > 1 /\ lastGet.ok

\* What it returned.
LastData == extract_product(lastGet.url, soup)

\* C1: no two records of the mapping, nor of the output array, share an id,
\* and the record held for an id is the one built from the first product whose
\* extraction resolved to that id: the later ones leave the mapping as it is.
C1_FirstWins ==
    /\ \A i, j \in 1..Len(products) : products[i].id = products[j].id => i = j
    /\ products = first
    /\ file.state = "whole" => file.content = first

\* A product resolved to an id that a product of another name already held,
\* and was dropped.
C1_Witness ==
    /\ LastExtracted
    /\ ok = None
    /\ \E i \in 1..Len(products) :
          products[i].id = LastData.id /\ products[i].name # LastData.name

\* A product page without image url: no request, no file, img null.
C2_NullUrlStep ==
    (pc = "products" /\ pi' = pi + 1 /\ lastGet'.ok /\ image_url(soup') = None)
        => /\ imgRequests' = imgRequests
           /\ disk' = disk
           /\ Len(products') > Len(products) => products'[Len(products')].img = None

\* A record inserted with an img: download_image has returned True, after the
\* request for the image url of the page, and the file holds all its bytes.
C2_ImgStep ==
    (Len(products') > Len(products) /\ products'[Len(products')].img # None)
        => /\ ok' = "True"
           /\ image_url(soup') \in imgRequests'
           /\ <<products'[Len(products')].img, Bytes(image_url(soup'), TRUE)>> \in disk'

\* C2: a record has an img only if download_image wrote the bytes of a
\* successful response to <OUT_DIR>/<id>.jpg, and a product without image url
\* gets img null with no request made.
C2_ImgOnlyOnSuccess ==
    /\ [](\A i \in 1..Len(products) :
            products[i].img # None
                => /\ products[i].img = ImgPath(products[i].id)
                   /\ \E u \in imgRequests : <<products[i].img, Bytes(u, TRUE)>> \in disk)
    /\ [][C2_NullUrlStep /\ C2_ImgStep]_vars

\* A record with its image on disk next to a record made from a page
\* without image url.
C2_Witness ==
    /\ LastExtracted
    /\ image_url(soup) = None
    /\ ok = "False"
    /\ products[Len(products)].img = None
    /\ \E i \in 1..Len(products) : products[i].img # None

\* The step of the product loop in which extract_product raises.
C3_RaiseStep ==
    (pc = "products" /\ ~lastGet'.ok)
        => /\ pi' = pi + 1
           /\ pc' = LoopHead(links, pi + 1)
           /\ UNCHANGED <<products, first, imgRequests, disk, file, writes, links, ci, web>>

\* C3: when extract_product raises, main adds no record, takes the next
\* product, and nothing of what the products before and after it see (the
\* mapping, the files, the list of links) has changed.
C3_FailureSkipsProduct == [][C3_RaiseStep]_vars

\* A product failed between a product that was recorded and one still to take.
C3_Witness ==
    /\ pc = "products"
    /\ pi > 2
    /\ ~lastGet.ok
    /\ Len(products) > 0

\* The step of the product loop in which download_image returns False.
C4_FailedDownloadStep ==
    (pc = "products" /\ pi' = pi + 1 /\ ok' = "False")
        => /\ pc' = LoopHead(links, pi + 1)
           /\ Len(products') = Len(products) + 1
           /\ SubSeq(products', 1, Len(products)) = products
           /\ \E data \in {extract_product(links[pi], soup')} :
                 products'[Len(products')] =
                     [id |-> data.id, name |-> data.name, width_cm |-> data.width_cm,
                      color |-> data.color, style |-> data.style, img |-> None]

\* C4: when the download for a new id fails, the record is inserted all the
\* same, with img null and the other fields as extracted, and main goes on.
C4_DownloadFailureKeepsRecord == [][C4_FailedDownloadStep]_vars

\* The write of the image of the last product failed and left a part of the
\* file, its record is there with a width, and there are products left.
C4_Witness ==
    /\ pc = "products"
    /\ LastExtracted
    /\ ok = "False"
    /\ LastData.img_url \in imgRequests
    /\ <<ImgPath(LastData.id), Bytes(LastData.img_url, FALSE)>> \in disk
    /\ products[Len(products)].id = LastData.id
    /\ products[Len(products)].width_cm # None

\* main was left by the exception of a listing page.
ListingAborted == pc = "aborted" /\ writes = 0

\* C5: a failure of a listing page, the first or a later one, leaves main:
\* nothing runs after it and OUT_JSON is never written.
C5_ListingFailureAborts ==
    /\ [][(pc = "find" /\ ~lastGet'.ok) => pc' = "aborted" /\ writes' = 0]_vars
    /\ [](ListingAborted => file.state \in {"absent", "old"})
    /\ [][pc = "aborted" => UNCHANGED vars]_vars

\* The second listing page failed: the links of the first page are lost and
\* there is no file.
C5_Witness ==
    /\ ListingAborted
    /\ lastGet.url = PageUrl(2)
    /\ seen # {}
    /\ file.state = "absent"

\* Following the next-page links from page u ends at a page without one
\* within fuel pages.
RECURSIVE EndsFrom(_, _)
EndsFrom(u, fuel) ==
    IF u \notin DOMAIN web THEN FALSE
    ELSE IF web[u].nxt = None THEN TRUE
    ELSE IF fuel = 0 THEN FALSE
    ELSE EndsFrom(UrlJoin(web[u].nxt), fuel - 1)

\* The listing of every category ends.
ListingsEnd ==
    \A i \in 1..Len(CATEGORIAS) : EndsFrom(CATEGORIAS[i], Cardinality(ListingUrls))

\* C6 as claimed: unless a listing page fails (or a listing never ends), main
\* reaches the serialization, which writes OUT_JSON once, after the last
\* category, with the values of the mapping: the empty array when there is no
\* record.
C6_WritesAlways ==
    /\ [](writes <= 1)
    /\ <>(\/ ~ListingsEnd
          \/ ListingAborted
          \/ pc = "done" /\ file = [state |-> "whole", content |-> products])

\* What the code does keep of C6: unless a listing page fails (or a listing
\* never ends), main reaches the serialization once, after the last category;
\* it returns only with the values of the mapping in OUT_JSON, the empty array
\* when there is no record, and otherwise the serialization itself has raised.
C6_WritesOnce ==
    /\ [](/\ writes <= 1
          /\ writes = 1 => pc \in {"done", "aborted"} /\ ci = Len(CATEGORIAS)
          /\ pc = "done" <=> file.state = "whole"
          /\ pc = "done" => writes = 1 /\ file.content = products
          /\ file.state = "partial" => pc = "aborted" /\ writes = 1)
    /\ <>(\/ ~ListingsEnd
          \/ ListingAborted
          \/ writes = 1)

\* No link was discovered and the file holds the empty array.
C6_Witness ==
    /\ pc = "done"
    /\ writes = 1
    /\ links = <<>>
    /\ pi = 1
    /\ file = [state |-> "whole", content |-> <<>>]

\* The keywords in the order the claim gives them.
ClaimedOrder == <<"negro", "blanco", "nogal", "caoba", "chocolate", "natural", "maple",
                  "wengue", "roble", "azul", "gris", "plata", "dorado", "oro", "bronce",
                  "marfil">>

ClaimedMetal == {"plata", "dorado", "oro", "bronce", "metal"}

\* The lowercase word k occurs in t, whatever the case of t's letters.
Occurs(k, t) ==
    \E p \in 0..(Len(t) - Len(k)) :
        \A q \in 1..Len(k) :
            CharAt(t, p + q) = CharAt(k, q) \/ CharAt(t, p + q) = UpperOf[CharAt(k, q)]

\* The color the table pairs with the keyword k.
PairedColor(k) == (CHOOSE e \in {mapc[i] : i \in 1..Len(mapc)} : e[1] = k)[2]

\* C7: the color is the one paired with the first keyword of the table that
\* occurs in the title, the default gray when none occurs; the style is
\* "metal" exactly when a metal word occurs.
C7_ColorAndStyle ==
    guess # NoGuess
        => /\ \A i \in 1..Len(ClaimedOrder) :
                 (Occurs(ClaimedOrder[i], title)
                  /\ \A j \in 1..(i - 1) : ~Occurs(ClaimedOrder[j], title))
                     => guess.color = PairedColor(ClaimedOrder[i])
           /\ (\A i \in 1..Len(ClaimedOrder) : ~Occurs(ClaimedOrder[i], title))
                 => guess.color = "#555555"
           /\ guess.style = (IF \E k \in ClaimedMetal : Occurs(k, title) THEN "metal" ELSE "grain")

\* A title in capitals with an early keyword and a metal word: the color of
\* the first, the style of the second.
C7_Witness ==
    /\ title = "NEGROORO"
    /\ guess = [style |-> "metal", color |-> "#111111"]

\* The characters of the text that an id may hold, uppercased.
Sanitized(text) == KeepOnly(Upper(IF text = None THEN "" ELSE text), IdChars)

ValidId(id) ==
    /\ id # None
    /\ Len(id) > 0
    /\ \A i \in 1..Len(id) : IsIn(CharAt(id, i), IdChars)

\* The last segment of the path of the url.
LastPathSegment(u) == LastSegment(Strip(UrlPath(u), "/"), "/")

\* The id as the claim derives it: the sanitized sku, else the sanitized last
\* segment, uppercased and with underscores for hyphens.
ClaimedId(u, sp) ==
    IF Sanitized(sp.sku) # "" THEN Sanitized(sp.sku)
    ELSE Sanitized(Replace(Upper(LastPathSegment(u)), "-", "_"))

\* The same, with "PRODUCTO" for an empty last segment.
ResolvedId(u, sp) ==
    IF Sanitized(sp.sku) # "" THEN Sanitized(sp.sku)
    ELSE IF LastPathSegment(u) = "" THEN "PRODUCTO"
    ELSE Sanitized(Replace(Upper(LastPathSegment(u)), "-", "_"))

\* The last product has a record under the id want, and none if want is empty.
RecordedAs(want) ==
    IF want = ""
    THEN ok = None /\ LastData.id = None
    ELSE /\ HasKey(products, want)
         /\ ok # None => products[Len(products)].id = want

\* C8 as claimed: every id is a non-empty text of A-Z, 0-9, - and _, the
\* sanitized sku or else the sanitized last segment of the url, and a product
\* for which both are empty has no record.
C8_IdsAsClaimed ==
    /\ \A i \in 1..Len(products) : ValidId(products[i].id)
    /\ LastExtracted => RecordedAs(ClaimedId(lastGet.url, soup))

\* C8 amended: the same, but a url whose path has no segment stands for the
\* segment "producto", so that only a last segment that is not empty and
\* sanitizes to nothing, with a sku that sanitizes to nothing, gives no record.
C8_Ids ==
    /\ \A i \in 1..Len(products) : ValidId(products[i].id)
    /\ LastExtracted => RecordedAs(ResolvedId(lastGet.url, soup))

\* An id from a sku, the id of the url without segment, and a last product
\* dropped because neither its sku nor its segment leaves a character.
C8_Witness ==
    /\ LastExtracted
    /\ ResolvedId(lastGet.url, soup) = ""
    /\ HasKey(products, "MP-301")
    /\ HasKey(products, "PRODUCTO")

\* C9 as claimed: every extraction that returned was followed by the sleep of
\* the product loop.
C9_SleepAfterEveryExtraction == LastExtracted => slept

\* The links find_product_links is to return for the category c: the product
\* links of the pages on the way from c to the page without next-page anchor.
RECURSIVE LinksFrom(_, _)
LinksFrom(u, fuel) ==
    IF u \notin DOMAIN web THEN {}
    ELSE PageLinks(web[u]) \cup
         (IF web[u].nxt = None \/ fuel = 0 THEN {}
          ELSE LinksFrom(UrlJoin(web[u].nxt), fuel - 1))

\* C10 as claimed: whatever the next-page links, find_product_links comes to
\* an end, and what it returns is the sorted list, without repetition, of the
\* product links of the pages it visited.
C10_DiscoveryTerminates ==
    /\ (pc = "find") ~> (pc # "find")
    /\ [](pc \in {"products", "main", "done"} /\ ci > 0
            => /\ \A i, j \in 1..Len(links) : i < j => StrLess(links[i], links[j])
               /\ {links[i] : i \in 1..Len(links)}
                     = LinksFrom(CATEGORIAS[ci], Cardinality(ListingUrls)))

====
